---- MODULE Spec2Model ----
(***************************************************************************)
(* Model of delta/imagery/sources/tiff.py: block-aligned reading of ROIs   *)
(* from a geotiff (TiffImage) and block writes to a geotiff (TiffWriter).  *)
(*                                                                         *)
(* The specifications of the module:                                       *)
(*   Spec        one call of TiffImage.process_rois, with the executor's   *)
(*               worker thread interleaved with the calling thread;        *)
(*   SpecSeq     repeated process_rois calls on the same TiffImage;        *)
(*   SpecSave    TiffImage.save: process_rois feeding a TiffWriter;        *)
(*   SpecAlign   TiffImage.get_block_aligned_read_roi as a pure function   *)
(*               over bounded images, block sizes and ROIs;                *)
(*   SpecSource  a TiffImage receiving accessor and close calls;           *)
(*   SpecCtor    the TiffWriter constructor;                               *)
(*   SpecWriter  a TiffWriter receiving write_block and close calls.       *)
(***************************************************************************)
EXTENDS Integers, Sequences, FiniteSets

VARIABLES
    image,          \* the opened TiffImage: width(), height(), GetBlockSize()
    requested_rois, \* argument of process_rois (a list of Rectangle)
    block_rois,     \* the remaining ROIs, as positions in requested_rois
    jobs,           \* list of (future, read_roi, applicable_rois)
    futures,        \* state of each submitted read, by submission number
    queue,          \* work queue of the ThreadPoolExecutor
    running,        \* submitted reads a worker thread is executing now
    readLog,        \* order in which backend reads were started
    pc,             \* position of the calling thread in process_rois
    error,          \* exception raised to the caller of process_rois
    jobIdx,         \* position of the "for ... in jobs" loop
    roiIdx,         \* position of the "for roi in rois" loop
    delivered,      \* the callback invocations, in order
    desired_roi,    \* argument of get_block_aligned_read_roi
    aligned,        \* its result
    writer,         \* the TiffWriter's fields
    handle,         \* TiffWriter._handle: "open", or "None" after close()
    lastCall,       \* the latest write_block call and its outcome
    flushes,        \* number of FlushCache calls made by TiffWriter.close
    raster,         \* the pixels of the output file written so far
    stale,          \* executors left behind by earlier process_rois calls
    calls,          \* number of earlier process_rois calls on the image
    saveLog,        \* the write_block calls made by save's callback
    handles,        \* TiffImage._handles: "open", or "None" after close()
    lastAccess,     \* the latest TiffImage method call and its outcome
    num_files,      \* write_input_files: len(file_list)
    files_per_job,  \* write_input_files: the shard size asked for
    indices,        \* the shuffled positions of file_list
    input_iter,     \* number of input files written so far
    current_file_count, \* entries written to the shard file that is open
    output_files,   \* the shard files created, each with the files in it
    shardPc         \* the position of write_input_files

vars == <<image, requested_rois, block_rois, jobs, futures, queue, running, readLog,
          pc, error, jobIdx, roiIdx, delivered, desired_roi, aligned,
          writer, handle, lastCall, flushes, raster, stale, calls, saveLog, handles,
          lastAccess, num_files, files_per_job, indices, input_iter,
          current_file_count, output_files, shardPc>>

roisVars   == <<image, requested_rois, block_rois, jobs, futures, queue, running,
                readLog, pc, error, jobIdx, roiIdx, delivered>>
alignVars  == <<desired_roi, aligned>>
writerVars == <<writer, handle, lastCall, flushes, raster>>
seqVars    == <<stale, calls>>
saveVars   == <<saveLog>>
sourceVars == <<handles, lastAccess>>
shardVars  == <<num_files, files_per_job, indices, input_iter,
                current_file_count, output_files, shardPc>>

----------------------------------------------------------------------------
(* Bounds of the model.                                                    *)

MaxX     == 2   \* largest x coordinate of a requested ROI in Spec
MaxRois  == 3   \* longest list of requested ROIs in Spec
MaxDim   == 4   \* largest image extent and ROI coordinate in SpecAlign
MaxBlk   == 3   \* largest native block extent in SpecAlign
MaxSize  == 10  \* largest output image extent in SpecWriter
MaxTile  == 4   \* largest output tile extent in SpecWriter
MaxData  == 5   \* largest extent of a written data block in SpecWriter
MaxIdx   == 3   \* largest tile index passed to write_block in SpecWriter
MaxDelta == 5   \* distance of the sizes from the threshold in SpecCtor
MaxCalls == 2   \* process_rois calls made on one image in SpecSeq
MaxSeqRois == 2 \* longest requested_rois list in SpecSeq
MaxSaveDim == 3 \* largest image width and height in SpecSave
MaxSaveBlk == 2 \* largest native block side in SpecSave
MaxSaveTile == 2 \* largest tile_size component passed to save
MaxBands == 2   \* largest band count in SpecSave
MaxLiveX == 2   \* image width in SpecLive
MaxLiveRois == 2 \* longest requested_rois list in SpecLive
MaxRaster == 3  \* largest output image extent in SpecRaster

----------------------------------------------------------------------------
(* delta.imagery.rectangle.Rectangle: half-open, max exclusive.            *)

Rectangle(min_x, min_y, max_x, max_y) ==
    [min_x |-> min_x, min_y |-> min_y, max_x |-> max_x, max_y |-> max_y]

RectangleWH(min_x, min_y, w, h) ==
    Rectangle(min_x, min_y, min_x + w, min_y + h)

width(r)  == r.max_x - r.min_x
height(r) == r.max_y - r.min_y

Max(a, b) == IF a >= b THEN a ELSE b
Min(a, b) == IF a <= b THEN a ELSE b

get_intersection(self, other) ==
    Rectangle(Max(self.min_x, other.min_x), Max(self.min_y, other.min_y),
              Min(self.max_x, other.max_x), Min(self.max_y, other.max_y))

contains_rect(self, other) ==
    /\ self.min_x <= other.min_x
    /\ self.min_y <= other.min_y
    /\ other.max_x <= self.max_x
    /\ other.max_y <= self.max_y

----------------------------------------------------------------------------
(* TiffImage                                                               *)

\* math.ceil(a / b) for a >= 0, b > 0
CeilDiv(a, b) == (a + b - 1) \div b

\* Rectangle(0, 0, width=self.width(), height=self.height())
whole_bounds(img) == RectangleWH(0, 0, img.width, img.height)

\* ((block height, block width), (num blocks x, num blocks y)); gdal's
\* GetBlockSize() is img.block, and the two components are swapped.
block_info(img) ==
    << <<img.block[2], img.block[1]>>,
       <<CeilDiv(img.height, img.block[2]), CeilDiv(img.width, img.block[1])>> >>

\* As get_block_aligned_read_roi, with the stop blocks computed from the
\* exclusive maximum.
get_block_aligned_read_roi_inclusive(img, desired) ==
    LET block_size    == block_info(img)[1]
        start_block_x == desired.min_x \div block_size[1]
        start_block_y == desired.min_y \div block_size[2]
        stop_block_x  == desired.max_x \div block_size[1]
        stop_block_y  == desired.max_y \div block_size[2]
        start_x       == start_block_x * block_size[1]
        start_y       == start_block_y * block_size[2]
        w             == (stop_block_x - start_block_x + 1) * block_size[1]
        h             == (stop_block_y - start_block_y + 1) * block_size[2]
        ans           == RectangleWH(start_x, start_y, w, h)
    IN  get_intersection(ans, whole_bounds(img))

\* The body of get_block_aligned_read_roi after its bounds check.
get_block_aligned_read_roi(img, desired) ==
    LET block_size    == block_info(img)[1]
        start_block_x == desired.min_x \div block_size[1]
        start_block_y == desired.min_y \div block_size[2]
        stop_block_x  == (desired.max_x - 1) \div block_size[1]
        stop_block_y  == (desired.max_y - 1) \div block_size[2]
        start_x       == start_block_x * block_size[1]
        start_y       == start_block_y * block_size[2]
        w             == (stop_block_x - start_block_x + 1) * block_size[1]
        h             == (stop_block_y - start_block_y + 1) * block_size[2]
        ans           == RectangleWH(start_x, start_y, w, h)
    IN  get_intersection(ans, whole_bounds(img))

----------------------------------------------------------------------------
(* TiffImage.process_rois                                                  *)

\* A pool of two worker threads.
max_workers_two == 1 + 1

\* concurrent.futures.ThreadPoolExecutor(1)
max_workers == 1

RemoveAt(s, i) == SubSeq(s, 1, i - 1) \o SubSeq(s, i + 1, Len(s))

AllInBounds_first(img, rois) ==
    rois = <<>> \/ contains_rect(whole_bounds(img), rois[1])

\* "for roi in requested_rois: if not whole_bounds.contains_rect(roi): raise"
AllInBounds(img, rois) ==
    \A i \in 1..Len(rois) : contains_rect(whole_bounds(img), rois[i])

\* As CollectApplicable, but a zero-area ROI is never matched.
RECURSIVE CollectApplicable_area(_, _, _, _, _)
CollectApplicable_area(req, rem, index, read_roi, applicable) ==
    IF index > Len(rem)
    THEN <<rem, applicable>>
    ELSE IF \/ ~contains_rect(read_roi, req[rem[index]])
            \/ width(req[rem[index]]) = 0
            \/ height(req[rem[index]]) = 0
         THEN CollectApplicable_area(req, rem, index + 1, read_roi,
                                     applicable)
         ELSE CollectApplicable_area(req, RemoveAt(rem, index), index,
                                     read_roi, Append(applicable, rem[index]))

\* As CollectApplicable, but the index also advances after a pop.
RECURSIVE CollectApplicable_skip(_, _, _, _, _)
CollectApplicable_skip(req, rem, index, read_roi, applicable) ==
    IF index > Len(rem)
    THEN <<rem, applicable>>
    ELSE IF ~contains_rect(read_roi, req[rem[index]])
         THEN CollectApplicable_skip(req, rem, index + 1, read_roi,
                                     applicable)
         ELSE CollectApplicable_skip(req, RemoveAt(rem, index), index + 1,
                                     read_roi, Append(applicable, rem[index]))

\* As CollectApplicable, but a matched ROI is put in front of the list.
RECURSIVE CollectApplicable_prepend(_, _, _, _, _)
CollectApplicable_prepend(req, rem, index, read_roi, applicable) ==
    IF index > Len(rem)
    THEN <<rem, applicable>>
    ELSE IF ~contains_rect(read_roi, req[rem[index]])
         THEN CollectApplicable_prepend(req, rem, index + 1, read_roi,
                                        applicable)
         ELSE CollectApplicable_prepend(req, RemoveAt(rem, index), index,
                                        read_roi,
                                        <<rem[index]>> \o applicable)

\* As CollectApplicable, but a matched ROI is removed by value
\* (list.remove semantics applied to every equal rectangle).
RECURSIVE CollectApplicable_byValue(_, _, _, _, _)
CollectApplicable_byValue(req, rem, index, read_roi, applicable) ==
    IF index > Len(rem)
    THEN <<rem, applicable>>
    ELSE IF ~contains_rect(read_roi, req[rem[index]])
         THEN CollectApplicable_byValue(req, rem, index + 1, read_roi,
                                        applicable)
         ELSE CollectApplicable_byValue(
                  req,
                  SelectSeq(rem, LAMBDA e : req[e] # req[rem[index]]),
                  index, read_roi, Append(applicable, rem[index]))

\* The inner "while index < len(block_rois)" loop: every remaining ROI that
\* read_roi contains is popped from block_rois and appended to
\* applicable_rois.  ROIs are the positions of the objects in req.
RECURSIVE CollectApplicable(_, _, _, _, _)
CollectApplicable(req, rem, index, read_roi, applicable) ==
    IF index > Len(rem)
    THEN <<rem, applicable>>
    ELSE IF ~contains_rect(read_roi, req[rem[index]])
         THEN CollectApplicable(req, rem, index + 1, read_roi, applicable)
         ELSE CollectApplicable(req, RemoveAt(rem, index), index, read_roi,
                                Append(applicable, rem[index]))

AppendJob_front(js, job) == <<job>> \o js

\* jobs.append((buf, read_roi, applicable_rois))
AppendJob(js, job) == Append(js, job)

\* The executor's work queue is first in, first out.
NextQueued(q) == Head(q)

ResultRaises_never(state) == FALSE

\* buf_exe.result() re-raises the exception of a failed read.
ResultRaises(state) == state = "failed"

\* buf[x0:x0 + roi.width(), y0:y0 + roi.height(), :] of a buffer of shape
\* (read_roi.width(), read_roi.height(), bands): a slice stops at the end
\* of the buffer.
SliceLen(lo, n, size) == Min(lo + n, size) - Min(lo, size)

SliceShape_absolute(roi, read_roi) ==
    <<SliceLen(roi.min_x, width(roi), width(read_roi)),
      SliceLen(roi.min_y, height(roi), height(read_roi))>>

SliceShape(roi, read_roi) ==
    LET x0 == roi.min_x - read_roi.min_x
        y0 == roi.min_y - read_roi.min_y
    IN  <<SliceLen(x0, width(roi), width(read_roi)),
          SliceLen(y0, height(roi), height(read_roi))>>

\* Lines 184-191: the ROIs are validated before the executor is created.
Validate ==
    /\ pc = "validate"
    /\ IF AllInBounds(image, requested_rois)
       THEN pc' = "group" /\ error' = error
       ELSE pc' = "raised" /\ error' = "out_of_bounds"
    /\ UNCHANGED <<image, requested_rois, block_rois, jobs, futures, queue,
                   running, readLog, jobIdx, roiIdx, delivered>>

\* Lines 199-217: one pass of "while block_rois", ending with exe.submit.
\* get_block_aligned_read_roi raises when its argument is out of bounds.
SubmitGroup ==
    /\ pc = "group"
    /\ block_rois # <<>>
    /\ LET leader == requested_rois[block_rois[1]] IN
       IF ~contains_rect(whole_bounds(image), leader)
       THEN /\ pc' = "raised"
            /\ error' = "out_of_bounds"
            /\ UNCHANGED <<block_rois, jobs, futures, queue>>
       ELSE LET read_roi == get_block_aligned_read_roi(image, leader)
                split    == CollectApplicable(requested_rois, block_rois, 1,
                                              read_roi, <<>>)
                buf      == Len(futures) + 1
            IN  /\ block_rois' = split[1]
                /\ futures' = Append(futures, "pending")
                /\ queue' = Append(queue, buf)
                /\ jobs' = AppendJob(jobs, [buf |-> buf, read_roi |-> read_roi,
                                            rois |-> split[2]])
                /\ UNCHANGED <<pc, error>>
    /\ UNCHANGED <<image, requested_rois, running, readLog, jobIdx, roiIdx,
                   delivered>>

\* Line 199 with block_rois empty: the loop ends, "for ... in jobs" begins.
EndGrouping ==
    /\ pc = "group"
    /\ block_rois = <<>>
    /\ pc' = "consume"
    /\ UNCHANGED <<image, requested_rois, block_rois, jobs, futures, queue,
                   running, readLog, error, jobIdx, roiIdx, delivered>>

\* Line 221: buf = buf_exe.result() blocks until the read has finished.
AwaitResult ==
    /\ pc = "consume"
    /\ jobIdx <= Len(jobs)
    /\ futures[jobs[jobIdx].buf] \in {"done", "failed"}
    /\ IF ResultRaises(futures[jobs[jobIdx].buf])
       THEN pc' = "raised" /\ error' = "read_failed"
       ELSE pc' = "callback" /\ error' = error
    /\ roiIdx' = 1
    /\ UNCHANGED <<image, requested_rois, block_rois, jobs, futures, queue,
                   running, readLog, jobIdx, delivered>>

\* Lines 222-228: one iteration of "for roi in rois".
Callback ==
    /\ pc = "callback"
    /\ roiIdx <= Len(jobs[jobIdx].rois)
    /\ LET job == jobs[jobIdx]
           roi == requested_rois[job.rois[roiIdx]]
       IN  delivered' = Append(delivered,
                               [entry |-> job.rois[roiIdx],
                                roi   |-> roi,
                                group |-> job.buf,
                                state |-> futures[job.buf],
                                shape |-> SliceShape(roi, job.read_roi)])
    /\ roiIdx' = roiIdx + 1
    /\ UNCHANGED <<image, requested_rois, block_rois, jobs, futures, queue,
                   running, readLog, pc, error, jobIdx>>

\* The inner for loop is exhausted: next job.
NextJob ==
    /\ pc = "callback"
    /\ roiIdx > Len(jobs[jobIdx].rois)
    /\ jobIdx' = jobIdx + 1
    /\ pc' = "consume"
    /\ UNCHANGED <<image, requested_rois, block_rois, jobs, futures, queue,
                   running, readLog, error, roiIdx, delivered>>

\* The outer for loop is exhausted: process_rois returns.
Return ==
    /\ pc = "consume"
    /\ jobIdx > Len(jobs)
    /\ pc' = "done"
    /\ UNCHANGED <<image, requested_rois, block_rois, jobs, futures, queue,
                   running, readLog, error, jobIdx, roiIdx, delivered>>

\* A worker thread of the executor takes the next work item and starts
\* self.read(read_roi); the pool has at most max_workers threads.
WorkerStart ==
    /\ queue # <<>>
    /\ Cardinality(running) < max_workers
    /\ LET buf == NextQueued(queue) IN
        /\ running' = running \cup {buf}
        /\ futures' = [futures EXCEPT ![buf] = "running"]
        /\ readLog' = Append(readLog, buf)
        /\ queue' = SelectSeq(queue, LAMBDA b : b # buf)
    /\ UNCHANGED <<image, requested_rois, block_rois, jobs, pc, error, jobIdx,
                   roiIdx, delivered>>

\* The backend read returns a buffer ...
WorkerFinish ==
    /\ \E buf \in running :
        /\ running' = running \ {buf}
        /\ futures' = [futures EXCEPT ![buf] = "done"]
    /\ UNCHANGED <<image, requested_rois, block_rois, jobs, queue, readLog, pc,
                   error, jobIdx, roiIdx, delivered>>

\* ... or raises, and the future holds the exception.
WorkerFail ==
    /\ \E buf \in running :
        /\ running' = running \ {buf}
        /\ futures' = [futures EXCEPT ![buf] = "failed"]
    /\ UNCHANGED <<image, requested_rois, block_rois, jobs, queue, readLog, pc,
                   error, jobIdx, roiIdx, delivered>>

----------------------------------------------------------------------------
(* TiffWriter                                                              *)

MIN_SIZE_FOR_TILES == 100

tiled_option_both(width_, height_) ==
    width_ > MIN_SIZE_FOR_TILES /\ height_ > MIN_SIZE_FOR_TILES

\* if width > MIN_SIZE_FOR_TILES or height > MIN_SIZE_FOR_TILES:
\*     options += ['TILED=YES']
tiled_option(width_, height_) ==
    width_ > MIN_SIZE_FOR_TILES \/ height_ > MIN_SIZE_FOR_TILES

\* __init__: the fields of the writer and the layout option of the file.
TiffWriter_init(width_, height_, num_bands, tile_width, tile_height) ==
    [width |-> width_, height |-> height_, tile_width |-> tile_width,
     tile_height |-> tile_height, num_bands |-> num_bands,
     tiled |-> tiled_option(width_, height_)]

\* (ceil(width / tile_width), ceil(height / tile_height))
get_num_tiles(wr) ==
    <<CeilDiv(wr.width, wr.tile_width), CeilDiv(wr.height, wr.tile_height)>>

InvalidTileIndex_off(wr, block_x, block_y) ==
    \/ block_x > get_num_tiles(wr)[1]
    \/ block_y > get_num_tiles(wr)[2]

\* (block_x >= num_tiles[0]) or (block_y >= num_tiles[1])
InvalidTileIndex(wr, block_x, block_y) ==
    \/ block_x >= get_num_tiles(wr)[1]
    \/ block_y >= get_num_tiles(wr)[2]

\* (block_x == num_tiles[0]-1) or (block_y == num_tiles[1]-1)
is_edge_block(wr, block_x, block_y) ==
    \/ block_x = get_num_tiles(wr)[1] - 1
    \/ block_y = get_num_tiles(wr)[2] - 1

TileOverflow_strict(wr, data, block_x, block_y) ==
    \/ block_x * wr.tile_width + data[1] >= wr.width
    \/ block_y * wr.tile_height + data[2] >= wr.height

\* max_x > self._width or max_y > self._height; data is data.shape
TileOverflow(wr, data, block_x, block_y) ==
    LET max_x == block_x * wr.tile_width + data[1]
        max_y == block_y * wr.tile_height + data[2]
    IN  max_x > wr.width \/ max_y > wr.height

TileShapeMismatch_larger(wr, data) ==
    \/ data[1] > wr.tile_width
    \/ data[2] > wr.tile_height

\* data.shape[0] != self._tile_width or data.shape[1] != self._tile_height
TileShapeMismatch(wr, data) ==
    \/ data[1] # wr.tile_width
    \/ data[2] # wr.tile_height

\* The outcome of write_block: the exception of the first raise reached, or
\* "ok" when WriteArray is called.  On a closed writer self._handle is None
\* and self._handle.GetRasterBand raises; GetRasterBand returns None for a
\* band the file does not have and "assert gdal_band" fails.
write_block(wr, hnd, data, block_x, block_y, band) ==
    IF InvalidTileIndex(wr, block_x, block_y)
    THEN "invalid_tile_index"
    ELSE IF is_edge_block(wr, block_x, block_y)
              /\ TileOverflow(wr, data, block_x, block_y)
    THEN "tile_overflow"
    ELSE IF ~is_edge_block(wr, block_x, block_y) /\ TileShapeMismatch(wr, data)
    THEN "tile_shape_mismatch"
    ELSE IF hnd = "None"
    THEN "handle_is_none"
    ELSE IF band + 1 \notin 1..wr.num_bands
    THEN "assert_gdal_band"
    ELSE "ok"

\* The extents of the data blocks passed to write_block: from below the
\* smallest tile to above the largest.
DataSizes == (MaxTile - 2)..MaxData

\* The pixels of a data block written with its corner at the tile origin.
BlockPixels(wr, data, block_x, block_y) ==
    {<<block_x * wr.tile_width + i, block_y * wr.tile_height + j>> :
        i \in 0..(data[1] - 1), j \in 0..(data[2] - 1)}

raster_after_unchecked(ras, wr, data, block_x, block_y, result) ==
    [ras EXCEPT !.written = IF ras.tracked
                            THEN @ \cup BlockPixels(wr, data, block_x, block_y)
                            ELSE @]

\* Line 397: WriteArray is only reached when nothing above it raised.  The
\* pixels are followed only in the specifications that track the raster.
raster_after(ras, wr, data, block_x, block_y, result) ==
    [ras EXCEPT !.written = IF ras.tracked /\ result = "ok"
                            THEN @ \cup BlockPixels(wr, data, block_x, block_y)
                            ELSE @]

\* A write_block call with the default band (band=0), its data extents
\* drawn from sizes and its tile indices from tiles.
write_block_call(sizes, tiles) ==
    /\ \E d0 \in sizes, d1 \in sizes, block_x \in tiles, block_y \in tiles :
        LET result == write_block(writer, handle, <<d0, d1>>, block_x,
                                  block_y, 0)
        IN  /\ lastCall' = [data |-> <<d0, d1>>, block_x |-> block_x,
                            block_y |-> block_y, band |-> 0,
                            handle |-> handle,
                            after_close |-> flushes > 0,
                            result |-> result]
            /\ raster' = raster_after(raster, writer, <<d0, d1>>, block_x,
                                      block_y, result)
    /\ UNCHANGED <<writer, handle, flushes>>

WriteBlock == write_block_call(DataSizes, 0..MaxIdx)

close_handle_keep(hnd) == hnd

\* self._handle = None
close_handle(hnd) == "None"

\* close(): FlushCache and self._handle = None, when the handle is not None.
Close ==
    /\ IF handle # "None"
       THEN handle' = close_handle(handle) /\ flushes' = flushes + 1
       ELSE UNCHANGED <<handle, flushes>>
    /\ UNCHANGED <<writer, lastCall, raster>>

----------------------------------------------------------------------------
(* Values of the variables a specification does not use.                   *)

NoRect   == Rectangle(0, 0, 0, 0)
NoWriter == [width |-> 0, height |-> 0, tile_width |-> 1, tile_height |-> 1,
             num_bands |-> 0, tiled |-> FALSE]
NoCall   == [result |-> "none"]

NoImage  == [width |-> 0, height |-> 0, block |-> <<1, 1>>]
NoResult == [status |-> "none"]

IdleAlign  == desired_roi = NoRect /\ aligned = NoResult
\* The raster of a specification that does not follow the pixels.
NoRaster == [tracked |-> FALSE, written |-> {}]

IdleWriter ==
    /\ writer = NoWriter /\ handle = "None" /\ lastCall = NoCall
    /\ flushes = 0 /\ raster = NoRaster
IdleSeq    == stale = <<>> /\ calls = 0
IdleSave   == saveLog = <<>>
IdleSource == handles = "open" /\ lastAccess = NoCall
IdleShard  ==
    /\ num_files = 0 /\ files_per_job = 1 /\ indices = <<>>
    /\ input_iter = 0 /\ current_file_count = 0 /\ output_files = <<>>
    /\ shardPc = "idle"
IdleRois   ==
    /\ requested_rois = <<>> /\ block_rois = <<>> /\ jobs = <<>>
    /\ futures = <<>> /\ queue = <<>> /\ running = {} /\ readLog = <<>>
    /\ pc = "idle" /\ error = "none" /\ jobIdx = 1 /\ roiIdx = 1
    /\ delivered = <<>>

----------------------------------------------------------------------------
(* Spec: one call of process_rois.                                         *)

\* ROIs of height 1 whose x extent ranges over 0..MaxX, zero-width included.
RoiUniverse ==
    {r \in [min_x : 0..MaxX, min_y : {0}, max_x : 0..MaxX, max_y : {1}] :
        r.min_x <= r.max_x}

Images ==
    [width : {MaxX - 1, MaxX}, height : {1}, block : {1} \X {1, MaxX}]

Init ==
    /\ image \in Images
    /\ requested_rois \in UNION {[1..n -> RoiUniverse] : n \in 0..MaxRois}
    /\ block_rois = [i \in 1..Len(requested_rois) |-> i]
    /\ jobs = <<>>
    /\ futures = <<>>
    /\ queue = <<>>
    /\ running = {}
    /\ readLog = <<>>
    /\ pc = "validate"
    /\ error = "none"
    /\ jobIdx = 1
    /\ roiIdx = 1
    /\ delivered = <<>>
    /\ IdleAlign
    /\ IdleWriter
    /\ IdleSeq
    /\ IdleSave
    /\ IdleSource
    /\ IdleShard

\* The variables process_rois does not touch.
notRois == <<alignVars, writerVars, seqVars, saveVars, sourceVars, shardVars>>

Next ==
    \/ Validate /\ UNCHANGED notRois
    \/ SubmitGroup /\ UNCHANGED notRois
    \/ EndGrouping /\ UNCHANGED notRois
    \/ AwaitResult /\ UNCHANGED notRois
    \/ Callback /\ UNCHANGED notRois
    \/ NextJob /\ UNCHANGED notRois
    \/ Return /\ UNCHANGED notRois
    \/ WorkerStart /\ UNCHANGED notRois
    \/ WorkerFinish /\ UNCHANGED notRois
    \/ WorkerFail /\ UNCHANGED notRois

Spec == Init /\ [][Next]_vars

\* The steps of the thread that called process_rois ...
CallerNext ==
    /\ \/ Validate
       \/ SubmitGroup
       \/ EndGrouping
       \/ AwaitResult
       \/ Callback
       \/ NextJob
       \/ Return
    /\ UNCHANGED notRois

\* ... and of the executor's worker thread.
WorkerNext ==
    /\ \/ WorkerStart
       \/ WorkerFinish
       \/ WorkerFail
    /\ UNCHANGED notRois

LiveImages ==
    [width : {MaxLiveX}, height : {1}, block : {1} \X {1, MaxLiveX}]

\* In-bounds ROIs of every kind: zero width at the origin and at the right
\* edge, zero height, the last pixel column, the whole image.
LiveRois ==
    {Rectangle(0, 0, 0, 1), Rectangle(MaxLiveX, 0, MaxLiveX, 1),
     Rectangle(0, 0, 1, 0), Rectangle(MaxLiveX - 1, 0, MaxLiveX, 1),
     Rectangle(0, 0, MaxLiveX, 1)}

InitLive ==
    /\ image \in LiveImages
    /\ \E n \in 0..MaxLiveRois : requested_rois \in [1..n -> LiveRois]
    /\ block_rois = [i \in 1..Len(requested_rois) |-> i]
    /\ jobs = <<>>
    /\ futures = <<>>
    /\ queue = <<>>
    /\ running = {}
    /\ readLog = <<>>
    /\ pc = "validate"
    /\ error = "none"
    /\ jobIdx = 1
    /\ roiIdx = 1
    /\ delivered = <<>>
    /\ IdleAlign
    /\ IdleWriter
    /\ IdleSeq
    /\ IdleSave
    /\ IdleSource
    /\ IdleShard

\* Both threads keep running: the caller is not suspended for ever, and the
\* worker takes queued work and every backend read comes to an end.
SpecLive ==
    /\ InitLive
    /\ [][Next]_vars
    /\ WF_vars(CallerNext)
    /\ WF_vars(WorkerNext)

----------------------------------------------------------------------------
(* SpecSeq: process_rois called again on the same TiffImage after the      *)
(* previous call returned or raised.  Each call creates its own            *)
(* ThreadPoolExecutor(1) (line 195) and never shuts it down, so the worker *)
(* of an abandoned executor keeps taking its queued reads.                 *)

InitSeq ==
    /\ image \in Images
    /\ \E n \in 1..MaxSeqRois : requested_rois \in [1..n -> RoiUniverse]
    /\ block_rois = [i \in 1..Len(requested_rois) |-> i]
    /\ jobs = <<>>
    /\ futures = <<>>
    /\ queue = <<>>
    /\ running = {}
    /\ readLog = <<>>
    /\ pc = "validate"
    /\ error = "none"
    /\ jobIdx = 1
    /\ roiIdx = 1
    /\ delivered = <<>>
    /\ IdleAlign
    /\ IdleWriter
    /\ IdleSeq
    /\ IdleSave
    /\ IdleSource
    /\ IdleShard

\* Line 225: callback_function raises; the exception leaves process_rois.
CallbackRaises ==
    /\ pc = "callback"
    /\ roiIdx <= Len(jobs[jobIdx].rois)
    /\ pc' = "raised"
    /\ error' = "callback_failed"
    /\ UNCHANGED <<image, requested_rois, block_rois, jobs, futures, queue,
                   running, readLog, jobIdx, roiIdx, delivered, notRois>>

\* The work of the executor of the call that just ended: its queued reads
\* and whether its worker is inside a read.
Leftover == [queued |-> Len(queue), reading |-> running # {}]

\* The next call on the same image with the same list: lines 184-198 start
\* over with a new executor, the previous one is left as it is.
StartCall ==
    /\ pc \in {"done", "raised"}
    /\ calls + 1 < MaxCalls
    /\ calls' = calls + 1
    /\ stale' = IF Leftover.queued > 0 \/ Leftover.reading
                THEN Append(stale, Leftover)
                ELSE stale
    /\ block_rois' = [i \in 1..Len(requested_rois) |-> i]
    /\ jobs' = <<>>
    /\ futures' = <<>>
    /\ queue' = <<>>
    /\ running' = {}
    /\ readLog' = <<>>
    /\ pc' = "validate"
    /\ error' = "none"
    /\ jobIdx' = 1
    /\ roiIdx' = 1
    /\ delivered' = <<>>
    /\ UNCHANGED <<image, requested_rois, alignVars, writerVars, saveVars,
                   sourceVars, shardVars>>

\* The worker of an abandoned executor takes its next queued read ...
StaleStart ==
    /\ \E i \in DOMAIN stale :
        /\ ~stale[i].reading
        /\ stale[i].queued > 0
        /\ stale' = [stale EXCEPT ![i] = [queued |-> @.queued - 1,
                                          reading |-> TRUE]]
    /\ UNCHANGED <<roisVars, calls, alignVars, writerVars, saveVars,
                   sourceVars, shardVars>>

\* ... and that read returns or raises; nobody looks at its future.
StaleFinish ==
    /\ \E i \in DOMAIN stale :
        /\ stale[i].reading
        /\ stale' = [stale EXCEPT ![i].reading = FALSE]
    /\ UNCHANGED <<roisVars, calls, alignVars, writerVars, saveVars,
                   sourceVars, shardVars>>

NextSeq ==
    \/ Validate /\ UNCHANGED notRois
    \/ SubmitGroup /\ UNCHANGED notRois
    \/ EndGrouping /\ UNCHANGED notRois
    \/ AwaitResult /\ UNCHANGED notRois
    \/ Callback /\ UNCHANGED notRois
    \/ CallbackRaises
    \/ NextJob /\ UNCHANGED notRois
    \/ Return /\ UNCHANGED notRois
    \/ WorkerStart /\ UNCHANGED notRois
    \/ WorkerFinish /\ UNCHANGED notRois
    \/ WorkerFail /\ UNCHANGED notRois
    \/ StartCall
    \/ StaleStart
    \/ StaleFinish

SpecSeq == InitSeq /\ [][NextSeq]_vars

----------------------------------------------------------------------------
(* SpecSave: TiffImage.save.  The writer is constructed from the image and *)
(* the tile size, the image extent is tiled, and process_rois delivers     *)
(* each tile to a callback that writes every band with write_block.        *)

\* Rectangle.make_tile_rois(tile_width, tile_height, include_partials=True):
\* the tiles in row-major order, the last column and row cut at the bounds.
make_tile_rois(bounds, tile_width, tile_height) ==
    LET nx == CeilDiv(width(bounds), tile_width)
        ny == CeilDiv(height(bounds), tile_height)
    IN  [k \in 1..(nx * ny) |->
            LET c == (k - 1) % nx
                r == (k - 1) \div nx
            IN  get_intersection(
                    RectangleWH(bounds.min_x + c * tile_width,
                                bounds.min_y + r * tile_height,
                                tile_width, tile_height),
                    bounds)]

SaveDims  == (MaxSaveDim - 2)..MaxSaveDim
SaveBlks  == (MaxSaveBlk - 1)..MaxSaveBlk
\* 0 leaves the choice of that component to the image's block size.
SaveTiles == {0} \cup (MaxSaveTile - 1)..MaxSaveTile

SaveImages ==
    [width : SaveDims, height : SaveDims, block : SaveBlks \X SaveBlks,
     bands : 1..MaxBands]

InitSave ==
    /\ image \in SaveImages
    /\ IdleRois
    /\ IdleAlign
    /\ IdleWriter
    /\ IdleSeq
    /\ IdleSave
    /\ IdleSource
    /\ IdleShard

\* Lines 243-248: the input block size unless the caller gave a tile size.
save_block_size(img, tile_size) ==
    LET bs == block_info(img)[1]
    IN  <<IF tile_size[1] > 0 THEN tile_size[1] ELSE bs[1],
          IF tile_size[2] > 0 THEN tile_size[2] ELSE bs[2]>>

\* Lines 239-255 and 184-186: save() up to the entry of process_rois.
SaveBegin ==
    /\ pc = "idle"
    /\ \E tile_size \in SaveTiles \X SaveTiles :
        LET block_size  == save_block_size(image, tile_size)
            output_rois == make_tile_rois(whole_bounds(image),
                                          block_size[1], block_size[2])
        IN  /\ writer' = TiffWriter_init(image.width, image.height,
                                         image.bands, block_size[1],
                                         block_size[2])
            /\ handle' = "open"
            /\ requested_rois' = output_rois
            /\ block_rois' = [i \in 1..Len(output_rois) |-> i]
    /\ pc' = "validate"
    /\ UNCHANGED <<image, jobs, futures, queue, running, readLog, error,
                   jobIdx, roiIdx, delivered, lastCall, flushes, raster,
                   saveLog,
                   alignVars, seqVars, sourceVars, shardVars>>

block_index_pixel(min_, block_size) == min_

\* block_x = output_roi.min_x / block_size_x: the tile origins are exact
\* multiples of the block size.
block_index(min_, block_size) == min_ \div block_size

\* callback_function: "for band in range(data.shape[2])", write_block for
\* each band; block_size_x and block_size_y are the values the writer was
\* constructed with.
callback_writes(wr, hnd, entry, roi, data, num_bands) ==
    LET block_x == block_index(roi.min_x, wr.tile_width)
        block_y == block_index(roi.min_y, wr.tile_height)
    IN  [b \in 1..num_bands |->
            [entry |-> entry, roi |-> roi, data |-> data,
             block_x |-> block_x, block_y |-> block_y, band |-> b - 1,
             result |-> write_block(wr, hnd, data, block_x, block_y, b - 1)]]

\* The calls up to and including the first one that raises.
UntilRaise(writes) ==
    LET bad == {b \in DOMAIN writes : writes[b].result # "ok"}
    IN  IF bad = {} THEN writes
        ELSE SubSeq(writes, 1, CHOOSE b \in bad : \A c \in bad : b <= c)

\* Lines 222-225 with save's callback: one iteration of "for roi in rois".
SaveCallback ==
    /\ pc = "callback"
    /\ roiIdx <= Len(jobs[jobIdx].rois)
    /\ LET job    == jobs[jobIdx]
           entry  == job.rois[roiIdx]
           roi    == requested_rois[entry]
           writes == callback_writes(writer, handle, entry, roi,
                                     SliceShape(roi, job.read_roi),
                                     image.bands)
       IN  /\ saveLog' = saveLog \o UntilRaise(writes)
           /\ IF \A b \in DOMAIN writes : writes[b].result = "ok"
              THEN Callback
              ELSE /\ pc' = "raised"
                   /\ error' = "write_failed"
                   /\ UNCHANGED <<image, requested_rois, block_rois, jobs,
                                  futures, queue, running, readLog, jobIdx,
                                  roiIdx, delivered>>
    /\ UNCHANGED <<writer, handle, lastCall, flushes, raster, alignVars,
                   seqVars,
                   sourceVars, shardVars>>

\* Leaving the with-block, by return or by exception: __exit__ closes.
SaveExit ==
    /\ pc \in {"done", "raised"}
    /\ handle # "None"
    /\ Close
    /\ UNCHANGED <<roisVars, saveLog, alignVars, seqVars, sourceVars, shardVars>>

NextSave ==
    \/ SaveBegin
    \/ Validate /\ UNCHANGED notRois
    \/ SubmitGroup /\ UNCHANGED notRois
    \/ EndGrouping /\ UNCHANGED notRois
    \/ AwaitResult /\ UNCHANGED notRois
    \/ SaveCallback
    \/ NextJob /\ UNCHANGED notRois
    \/ Return /\ UNCHANGED notRois
    \/ WorkerStart /\ UNCHANGED notRois
    \/ WorkerFinish /\ UNCHANGED notRois
    \/ WorkerFail /\ UNCHANGED notRois
    \/ SaveExit

SpecSave == InitSave /\ [][NextSave]_vars

----------------------------------------------------------------------------
(* SpecSource: an open TiffImage receiving method calls and close() in any *)
(* order.  Every public method starts with self.__asert_open().            *)

asert_open_skip(hnd) == TRUE

\* __asert_open: passes unless self._handles is None.
asert_open(hnd) == hnd # "None"

\* The outcome of one method call: the closed-source IOError when
\* __asert_open raises; the TypeError of using None when the method body
\* runs on released handles; otherwise the body's own outcome.
access(method, hnd, outcome, value, backend) ==
    IF ~asert_open(hnd)
    THEN [method |-> method, closed |-> hnd = "None",
          result |-> "closed_source_error", value |-> "none",
          backend |-> FALSE]
    ELSE IF hnd = "None"
    THEN [method |-> method, closed |-> TRUE, result |-> "type_error",
          value |-> "none", backend |-> FALSE]
    ELSE [method |-> method, closed |-> FALSE, result |-> outcome,
          value |-> value, backend |-> backend]

InitSource ==
    /\ image \in SaveImages
    /\ IdleRois
    /\ IdleAlign
    /\ IdleWriter
    /\ IdleSeq
    /\ IdleSave
    /\ IdleSource
    /\ IdleShard

\* The variables a method call on the source leaves alone.
notAccess ==
    <<handles, roisVars, alignVars, writerVars, seqVars, saveVars, shardVars>>

\* return len(self._band_map)
NumBands ==
    /\ lastAccess' = access("num_bands", handles, "ok", image.bands, FALSE)
    /\ UNCHANGED notAccess

\* return (self._handles[0].RasterYSize, self._handles[0].RasterXSize)
Size ==
    /\ lastAccess' = access("size", handles, "ok",
                            <<image.width, image.height>>, TRUE)
    /\ UNCHANGED notAccess

\* read(roi): _read asks the backend for the pixels; the backend may fail.
Read ==
    /\ \E outcome \in {"ok", "read_failed"} :
          lastAccess' = access("read", handles, outcome, "pixels", TRUE)
    /\ UNCHANGED notAccess

NodataValue ==
    /\ lastAccess' = access("nodata_value", handles, "ok", "backend", TRUE)
    /\ UNCHANGED notAccess

DataType ==
    /\ lastAccess' = access("data_type", handles, "ok", "backend", TRUE)
    /\ UNCHANGED notAccess

BlockInfo ==
    /\ lastAccess' = access("block_info", handles, "ok", block_info(image),
                            TRUE)
    /\ UNCHANGED notAccess

Metadata ==
    /\ lastAccess' = access("metadata", handles, "ok", "backend", TRUE)
    /\ UNCHANGED notAccess

\* Lines 150-174: the bounds check, then the aligned region.
GetBlockAlignedReadRoi ==
    /\ \E d \in RoiUniverse :
          lastAccess' =
            IF contains_rect(whole_bounds(image), d)
            THEN access("get_block_aligned_read_roi", handles, "ok",
                        get_block_aligned_read_roi(image, d), TRUE)
            ELSE access("get_block_aligned_read_roi", handles,
                        "out_of_bounds", "none", TRUE)
    /\ UNCHANGED notAccess

\* process_rois as one call: the validation, then the reads of the list.
ProcessRois ==
    /\ \E rois \in {<<>>} \cup {<<r>> : r \in RoiUniverse},
          outcome \in {"ok", "read_failed"} :
          lastAccess' =
            IF ~AllInBounds(image, rois)
            THEN access("process_rois", handles, "out_of_bounds", "none", TRUE)
            ELSE IF rois = <<>>
            THEN access("process_rois", handles, "ok", "none", TRUE)
            ELSE access("process_rois", handles, outcome, "none", TRUE)
    /\ UNCHANGED notAccess

\* close(): self._handles = None, unconditionally; nothing can raise.
CloseSource ==
    /\ handles' = "None"
    /\ lastAccess' = [method |-> "close", closed |-> handles = "None",
                      result |-> "ok", value |-> "none", backend |-> FALSE]
    /\ UNCHANGED <<roisVars, alignVars, writerVars, seqVars, saveVars,
                   shardVars>>

NextSource ==
    \/ NumBands
    \/ Size
    \/ Read
    \/ NodataValue
    \/ DataType
    \/ BlockInfo
    \/ Metadata
    \/ GetBlockAlignedReadRoi
    \/ ProcessRois
    \/ CloseSource

SpecSource == InitSource /\ [][NextSource]_vars

----------------------------------------------------------------------------
(* SpecAlign: get_block_aligned_read_roi on one image and one ROI.         *)

AlignImages ==
    [width : 1..MaxDim, height : 1..MaxDim, block : (1..MaxBlk) \X (1..MaxBlk)]

AlignRois ==
    {r \in [min_x : 0..MaxDim, min_y : 0..MaxDim,
            max_x : 0..MaxDim, max_y : 0..MaxDim] :
        r.min_x <= r.max_x /\ r.min_y <= r.max_y}

InitAlign ==
    /\ image \in AlignImages
    /\ desired_roi \in AlignRois
    /\ aligned = NoResult
    /\ IdleRois
    /\ IdleWriter
    /\ IdleSeq
    /\ IdleSave
    /\ IdleSource
    /\ IdleShard

\* Lines 151-174: raise when desired_roi is out of bounds, else the aligned
\* region.
AlignCall ==
    /\ aligned.status = "none"
    /\ aligned' =
          IF ~contains_rect(whole_bounds(image), desired_roi)
          THEN [status |-> "raised"]
          ELSE [status |-> "ok",
                roi |-> get_block_aligned_read_roi(image, desired_roi)]
    /\ UNCHANGED <<desired_roi, roisVars, writerVars, seqVars, saveVars,
                   sourceVars, shardVars>>

\* A second call, on the region the first call returned.
AlignAgain ==
    /\ aligned.status = "ok"
    /\ aligned' =
          [status |-> "twice",
           roi    |-> aligned.roi,
           again  |->
              IF ~contains_rect(whole_bounds(image), aligned.roi)
              THEN [status |-> "raised"]
              ELSE [status |-> "ok",
                    roi |-> get_block_aligned_read_roi(image, aligned.roi)]]
    /\ UNCHANGED <<desired_roi, roisVars, writerVars, seqVars, saveVars,
                   sourceVars, shardVars>>

NextAlign ==
    \/ AlignCall
    \/ AlignAgain

SpecAlign == InitAlign /\ [][NextAlign]_vars

----------------------------------------------------------------------------
(* SpecWriter: a TiffWriter after construction, then write_block and close *)
(* calls in any order.                                                     *)

Writers ==
    {TiffWriter_init(w, h, 1, tw, th) :
        w \in (MaxSize - 1)..MaxSize, h \in (MaxSize - 1)..MaxSize,
        tw \in (MaxTile - 1)..MaxTile, th \in (MaxTile - 1)..MaxTile}

InitWriter ==
    /\ writer \in Writers
    /\ handle = "open"
    /\ lastCall = NoCall
    /\ flushes = 0
    /\ raster = NoRaster
    /\ image = NoImage
    /\ IdleRois
    /\ IdleAlign
    /\ IdleSeq
    /\ IdleSave
    /\ IdleSource
    /\ IdleShard

\* The variables the writer does not touch.
notWriter == <<roisVars, alignVars, seqVars, saveVars, sourceVars, shardVars>>

NextWriter ==
    \/ WriteBlock /\ UNCHANGED notWriter
    \/ Close /\ UNCHANGED notWriter

SpecWriter == InitWriter /\ [][NextWriter]_vars

----------------------------------------------------------------------------
(* SpecRaster: a TiffWriter of a few pixels whose written pixels are       *)
(* followed, receiving write_block and close calls in any order.           *)

RasterWriters ==
    {TiffWriter_init(w, h, 1, MaxRaster - 1, MaxRaster - 1) :
        w \in (MaxRaster - 1)..MaxRaster, h \in (MaxRaster - 1)..MaxRaster}

\* Data extents around the tile extent, tile indices up to one past the
\* two-by-two tile grid.
RasterSizes   == (MaxRaster - 2)..MaxRaster
RasterIndices == 0..2

InitRaster ==
    /\ writer \in RasterWriters
    /\ handle = "open"
    /\ lastCall = NoCall
    /\ flushes = 0
    /\ raster = [tracked |-> TRUE, written |-> {}]
    /\ image = NoImage
    /\ IdleRois
    /\ IdleAlign
    /\ IdleSeq
    /\ IdleSave
    /\ IdleSource
    /\ IdleShard

RasterWrite == write_block_call(RasterSizes, RasterIndices)

NextRaster ==
    \/ RasterWrite /\ UNCHANGED notWriter
    \/ Close /\ UNCHANGED notWriter

SpecRaster == InitRaster /\ [][NextRaster]_vars

----------------------------------------------------------------------------
(* SpecCtor: the TiffWriter constructor on sizes around the threshold.     *)

CtorSizes ==
    (MIN_SIZE_FOR_TILES - MaxDelta)..(MIN_SIZE_FOR_TILES + MaxDelta)

InitCtor ==
    /\ image = NoImage
    /\ IdleRois
    /\ IdleAlign
    /\ IdleWriter
    /\ IdleSeq
    /\ IdleSave
    /\ IdleSource
    /\ IdleShard

\* TiffWriter(path, width, height) with the default band count and tile size.
Construct ==
    /\ writer = NoWriter
    /\ \E w \in CtorSizes, h \in CtorSizes :
          writer' = TiffWriter_init(w, h, 1, 256, 256)
    /\ handle' = "open"
    /\ UNCHANGED <<lastCall, flushes, raster, notWriter>>

NextCtor == Construct

SpecCtor == InitCtor /\ [][NextCtor]_vars


----------------------------------------------------------------------------
(* Properties of process_rois (Spec).                                      *)

Entries == 1..Len(requested_rois)

Deliveries(i) == {k \in 1..Len(delivered) : delivered[k].entry = i}

FailedReads == {k \in 1..Len(futures) : futures[k] = "failed"}

\* The entries of the groups before position k of jobs, in delivery order.
RECURSIVE EntriesBefore(_)
EntriesBefore(k) ==
    IF k <= 1 THEN <<>> ELSE EntriesBefore(k - 1) \o jobs[k - 1].rois

DeliveredEntries == [k \in 1..Len(delivered) |-> delivered[k].entry]

\* C1: when every ROI is in bounds and no read fails, the callback is
\* invoked exactly once for each entry of the input list: no entry is ever
\* delivered twice, the call can only end by returning, and when it returns
\* every entry (duplicates and zero-area ROIs included) has been delivered.
C1_ExactlyOnce ==
    /\ \A i \in Entries : Cardinality(Deliveries(i)) <= 1
    /\ \A k \in 1..Len(delivered) : delivered[k].entry \in Entries
    /\ pc = "raised" =>
          \/ \E i \in Entries :
                ~contains_rect(whole_bounds(image), requested_rois[i])
          \/ FailedReads # {}
    /\ pc = "done" =>
          /\ \A i \in Entries : Cardinality(Deliveries(i)) = 1
          /\ Len(delivered) = Len(requested_rois)

C1_Witness ==
    /\ pc = "done"
    /\ Len(requested_rois) = 3
    /\ requested_rois[1] = requested_rois[3]
    /\ width(requested_rois[2]) = 0
    /\ Len(jobs) = 2
    /\ Len(delivered) = 3

\* C2: callbacks are invoked group by group in submission order: a callback
\* for a ROI of a later-submitted group never precedes a callback for a ROI
\* of an earlier-submitted group.
C2_GroupOrder ==
    \A a, b \in 1..Len(delivered) :
        a < b => delivered[a].group <= delivered[b].group

C2_Witness ==
    /\ pc = "done"
    /\ Len(jobs) = 3
    /\ delivered[1].group = 1
    /\ delivered[3].group = 3

\* C3: at most one backend read is executing at any instant, and the reads
\* are started in submission order.
C3_OneReadAtATime ==
    /\ Cardinality(running) <= 1
    /\ \A k \in 1..Len(readLog) : readLog[k] = k

C3_Witness ==
    /\ Cardinality(running) = 1
    /\ Len(queue) = 2
    /\ Len(readLog) = 1
    /\ pc = "consume"

\* C4: when the read of a group fails, no callback is ever invoked for a
\* ROI of that group or of a later group and the callback never receives the
\* buffer of a failed read; process_rois does not return normally, and when
\* it raises the read error at group k (the first group whose read failed)
\* the callbacks invoked are exactly those of the groups before k, in order.
C4_ReadFailure ==
    /\ \A k \in FailedReads :
          \A d \in 1..Len(delivered) : delivered[d].group < k
    /\ \A d \in 1..Len(delivered) : delivered[d].state = "done"
    /\ pc = "done" => FailedReads = {}
    /\ error = "read_failed" =>
          /\ pc = "raised"
          /\ jobs[jobIdx].buf \in FailedReads
          /\ \A k \in FailedReads : jobs[jobIdx].buf <= k
          /\ DeliveredEntries = EntriesBefore(jobIdx)

C4_Witness ==
    /\ error = "read_failed"
    /\ Len(jobs) = 3
    /\ jobIdx = 2
    /\ Len(delivered) = 1

\* C5: when some requested ROI is not contained in the image bounds, no
\* read job is ever submitted or started and no callback is ever invoked,
\* whatever the position of the offending ROI; the call ends with the
\* out-of-bounds error.
C5_FailFast ==
    (\E i \in Entries : ~contains_rect(whole_bounds(image), requested_rois[i]))
    => /\ futures = <<>>
       /\ jobs = <<>>
       /\ readLog = <<>>
       /\ delivered = <<>>
       /\ pc \in {"validate", "raised"}
       /\ pc = "raised" => error = "out_of_bounds"

C5_Witness ==
    /\ pc = "raised"
    /\ error = "out_of_bounds"
    /\ Len(requested_rois) = 3
    /\ contains_rect(whole_bounds(image), requested_rois[1])
    /\ contains_rect(whole_bounds(image), requested_rois[2])
    /\ ~contains_rect(whole_bounds(image), requested_rois[3])

\* C6 as stated: after the read of some group has failed, no backend read
\* for a later group is started.
C6_NoReadAfterFailure ==
    [][FailedReads # {} => readLog' = readLog]_vars

\* C6 amended: every group is submitted before the first result is awaited,
\* and once the read the caller is waiting for has failed the caller only
\* raises: it invokes no further callback and submits nothing.
C6_StopsDelivering ==
    [][/\ pc \in {"consume", "callback", "done"} => block_rois = <<>>
       /\ (/\ pc \in {"consume", "raised"}
           /\ jobIdx <= Len(jobs)
           /\ futures[jobs[jobIdx].buf] = "failed")
          => /\ delivered' = delivered
             /\ futures' \in {futures} \cup
                             {[futures EXCEPT ![k] = s] :
                                 k \in 1..Len(futures),
                                 s \in {"running", "done", "failed"}}
             /\ pc' \in {pc, "raised"}]_vars

\* A later group's read is executing after the failure was raised.
C6_Witness ==
    /\ error = "read_failed"
    /\ jobIdx < Len(jobs)
    /\ futures[jobs[jobIdx].buf + 1] = "running"

----------------------------------------------------------------------------
(* Properties of get_block_aligned_read_roi (SpecAlign).                   *)

\* The rectangle of the block aligner's formula for native block size
\* (bh, bw): x is divided by bw and y by bh.
AlignerFormula(d, bh, bw, bounds) ==
    LET start_block_x == d.min_x \div bw
        start_block_y == d.min_y \div bh
        stop_block_x  == (d.max_x - 1) \div bw
        stop_block_y  == (d.max_y - 1) \div bh
    IN  get_intersection(
            RectangleWH(start_block_x * bw, start_block_y * bh,
                        (stop_block_x - start_block_x + 1) * bw,
                        (stop_block_y - start_block_y + 1) * bh),
            bounds)

\* C7 as stated: with (bh, bw) the block size block_info reports, the result
\* is the formula's rectangle, its x extent aligned to the block width bw
\* and its y extent to the block height bh.
C7_FormulaWidthForX ==
    aligned.status = "ok" =>
        LET bh == block_info(image)[1][1]
            bw == block_info(image)[1][2]
        IN  /\ aligned.roi = AlignerFormula(desired_roi, bh, bw,
                                            whole_bounds(image))
            /\ aligned.roi.min_x % bw = 0
            /\ aligned.roi.min_y % bh = 0

\* C7 amended: the x extent is aligned to multiples of the first component
\* of block_info's block size (the one it documents as the block height,
\* gdal's block y size) and the y extent to multiples of the second (the
\* block width, gdal's block x size); the result contains the desired ROI,
\* lies in the image bounds, each of its sides is less than one block away
\* from the desired ROI's side, and a maximum that is not a block multiple
\* is the image bound.
C7_AlignedSwapped ==
    aligned.status = "ok" =>
        LET bx == image.block[2]
            by == image.block[1]
            r  == aligned.roi
            d  == desired_roi
        IN  /\ block_info(image)[1] = <<bx, by>>
            /\ contains_rect(r, d)
            /\ contains_rect(whole_bounds(image), r)
            /\ r.min_x % bx = 0
            /\ r.min_y % by = 0
            /\ r.max_x % bx = 0 \/ r.max_x = image.width
            /\ r.max_y % by = 0 \/ r.max_y = image.height
            /\ d.min_x - r.min_x < bx
            /\ d.min_y - r.min_y < by
            /\ r.max_x - d.max_x < bx
            /\ r.max_y - d.max_y < by

\* A non-square block, an aligned region larger than the ROI and clipped at
\* a partial block on the image edge.
C7_Witness ==
    /\ aligned.status = "ok"
    /\ image.block[1] # image.block[2]
    /\ aligned.roi # desired_roi
    /\ aligned.roi.max_x = image.width
    /\ image.width % image.block[2] # 0
    /\ aligned.roi.min_x > 0
    /\ width(desired_roi) > 0 /\ height(desired_roi) > 0

\* C12: block alignment is idempotent: aligning the region returned for an
\* in-bounds ROI succeeds and returns that same region, also when the
\* region was clipped at a partial block on the image edge.
C12_Idempotent ==
    aligned.status = "twice" =>
        /\ aligned.again.status = "ok"
        /\ aligned.again.roi = aligned.roi

\* A region grown by the alignment and clipped at a partial edge block has
\* been aligned a second time.
C12_Witness ==
    /\ aligned.status = "twice"
    /\ aligned.again.status = "ok"
    /\ aligned.roi # desired_roi
    /\ aligned.roi.max_x = image.width
    /\ image.width % image.block[2] # 0
    /\ aligned.roi.max_y = image.height
    /\ image.height % image.block[1] # 0
    /\ width(desired_roi) > 0 /\ height(desired_roi) > 0

\* The entries still in block_rois.
Remaining == {block_rois[k] : k \in DOMAIN block_rois}

\* C17: the grouping loop terminates for every list of in-bounds ROIs:
\* each pass removes at least the first remaining ROI, zero-width and
\* zero-height ROIs included, and puts it in the group it submits; the
\* number of submitted groups is at most the number of ROIs and, once
\* grouping has ended, at least 1 for a non-empty list; the loop is left,
\* and process_rois comes to an end, by returning unless a read failed.
C17_GroupingTerminates ==
    /\ [][jobs' # jobs =>
            /\ block_rois # <<>>
            /\ Len(jobs') = Len(jobs) + 1
            /\ Len(block_rois') < Len(block_rois)
            /\ block_rois[1] \notin {block_rois'[k] : k \in DOMAIN block_rois'}
            /\ jobs'[Len(jobs')].rois # <<>>
            /\ jobs'[Len(jobs')].rois[1] = block_rois[1]]_vars
    /\ [](/\ Len(jobs) <= Len(requested_rois)
          /\ Len(jobs) + Cardinality(Remaining) <= Len(requested_rois)
          /\ pc \in {"consume", "callback", "done"} =>
                /\ block_rois = <<>>
                /\ requested_rois # <<>> => Len(jobs) >= 1
          /\ pc = "raised" =>
                \/ ~AllInBounds(image, requested_rois)
                \/ FailedReads # {})
    /\ (pc = "group") ~> (pc # "group")
    /\ <>(pc \in {"done", "raised"})

\* Grouping has ended for a list of a zero-width and a zero-height ROI
\* that needed one group per ROI, and process_rois has returned.
C17_Witness ==
    /\ pc = "done"
    /\ Len(requested_rois) = 2
    /\ width(requested_rois[1]) = 0
    /\ height(requested_rois[2]) = 0
    /\ Len(jobs) = 2
    /\ block_rois = <<>>

\* The entries of the groups submitted before group j.
GroupedBefore(j) ==
    UNION {{jobs[e].rois[n] : n \in DOMAIN jobs[e].rois} : e \in 1..(j - 1)}

\* C18: greedy grouping: the leader of each group is the earliest entry of
\* the input list not grouped before, the group's read region is the
\* leader's block-aligned region, every ROI of a group is contained in the
\* group's read region and in no earlier group's read region, no entry is
\* in two groups, an entry still ungrouped is contained in no submitted
\* read region, and once grouping has ended every entry is in exactly one
\* group.
C18_GreedyGrouping ==
    /\ \A j \in 1..Len(jobs) :
        LET job == jobs[j] IN
        /\ job.rois # <<>>
        /\ job.rois[1] \notin GroupedBefore(j)
        /\ \A i \in Entries : i < job.rois[1] => i \in GroupedBefore(j)
        /\ job.read_roi =
              get_block_aligned_read_roi(image, requested_rois[job.rois[1]])
        /\ \A n \in DOMAIN job.rois :
              /\ contains_rect(job.read_roi, requested_rois[job.rois[n]])
              /\ job.rois[n] \notin GroupedBefore(j)
              /\ \A m \in DOMAIN job.rois : m # n => job.rois[m] # job.rois[n]
              /\ \A e \in 1..(j - 1) :
                    ~contains_rect(jobs[e].read_roi,
                                   requested_rois[job.rois[n]])
    /\ \A k \in DOMAIN block_rois :
          /\ block_rois[k] \notin GroupedBefore(Len(jobs) + 1)
          /\ \A e \in 1..Len(jobs) :
                ~contains_rect(jobs[e].read_roi,
                               requested_rois[block_rois[k]])
    /\ pc \in {"consume", "callback", "done"} =>
          GroupedBefore(Len(jobs) + 1) = Entries

\* Three entries in two groups: the first group took entries 1 and 3 and
\* left entry 2, which its read region does not contain, to lead the
\* second group.
C18_Witness ==
    /\ pc = "done"
    /\ Len(jobs) = 2
    /\ jobs[1].rois = <<1, 3>>
    /\ jobs[2].rois = <<2>>
    /\ requested_rois[3] # requested_rois[1]

\* C19: within one read group the callbacks are delivered in the order the
\* ROIs were matched during grouping, which is the relative order of those
\* ROIs in the caller's input list.
C19_IntraGroupOrder ==
    /\ \A j \in 1..Len(jobs) :
          \A m, n \in DOMAIN jobs[j].rois :
              m < n => jobs[j].rois[m] < jobs[j].rois[n]
    /\ \A a, b \in 1..Len(delivered) :
          (a < b /\ delivered[a].group = delivered[b].group) =>
              delivered[a].entry < delivered[b].entry

\* A group of three different ROIs has been delivered in input order.
C19_Witness ==
    /\ pc = "done"
    /\ Len(jobs) = 1
    /\ DeliveredEntries = <<1, 2, 3>>
    /\ requested_rois[1] # requested_rois[2]
    /\ requested_rois[2] # requested_rois[3]
    /\ requested_rois[1] # requested_rois[3]

\* C20: for every delivered ROI the slice offset is non-negative and offset
\* plus ROI size does not exceed the size of the aligned read buffer, so
\* the slice passed to the callback has exactly the ROI's width and height.
C20_SliceExact ==
    \A k \in 1..Len(delivered) :
        LET roi      == delivered[k].roi
            read_roi == jobs[delivered[k].group].read_roi
            x0       == roi.min_x - read_roi.min_x
            y0       == roi.min_y - read_roi.min_y
        IN  /\ x0 >= 0
            /\ y0 >= 0
            /\ x0 + width(roi) <= width(read_roi)
            /\ y0 + height(roi) <= height(read_roi)
            /\ delivered[k].shape = <<width(roi), height(roi)>>

\* A ROI that is not the leader of its group has been delivered from a
\* read region that starts before it.
C20_Witness ==
    /\ Len(delivered) >= 2
    /\ delivered[2].group = delivered[1].group
    /\ delivered[2].roi.min_x > jobs[delivered[2].group].read_roi.min_x
    /\ width(delivered[2].roi) > 0
    /\ delivered[2].shape = <<width(delivered[2].roi), 1>>

\* The read jobs submitted whose result the callback loop has not taken
\* yet: queued, being read, or completed and waiting.
Unconsumed ==
    {k \in 1..Len(futures) :
        \/ pc \in {"validate", "group"}
        \/ k > jobIdx
        \/ k = jobIdx /\ pc = "consume"}

\* C21 as stated: the number of read jobs queued or completed but not yet
\* consumed is bounded by a constant given by a queue of depth 1 (one job
\* waiting besides the one the worker holds), whatever the number of read
\* groups.
C21_PrefetchDepthOne == Cardinality(Unconsumed) <= 2

\* C21 amended: the number of unconsumed read jobs is bounded by the number
\* of read groups, which is at most the number of ROIs, and this bound is
\* attained: no result is consumed before every group has been submitted,
\* so when the callback loop starts every submitted job is unconsumed.
C21_PrefetchBoundedByGroups ==
    /\ Cardinality(Unconsumed) <= Len(jobs)
    /\ Len(jobs) = Len(futures)
    /\ Len(jobs) <= Len(requested_rois)
    /\ (pc \in {"validate", "group"} \/ (pc = "consume" /\ jobIdx = 1)) =>
          Cardinality(Unconsumed) = Len(jobs)
    /\ block_rois # <<>> => delivered = <<>>

\* Three read groups have all been read before the first result is taken.
C21_Witness ==
    /\ pc = "consume"
    /\ jobIdx = 1
    /\ Len(jobs) = 3
    /\ \A k \in 1..3 : futures[k] = "done"
    /\ Cardinality(Unconsumed) = 3

----------------------------------------------------------------------------
(* Properties of repeated process_rois calls (SpecSeq).                    *)

\* Backend reads executing now: the current executor's and the abandoned
\* executors'.
ReadsExecuting ==
    Cardinality(running) + Cardinality({i \in DOMAIN stale : stale[i].reading})

\* C13: over any sequence of process_rois calls on the same TiffImage,
\* including a call made after an earlier call ended with a read failure or
\* a callback exception, at most one backend read is executing at any
\* instant.
C13_OneReadAcrossCalls == ReadsExecuting <= 1

----------------------------------------------------------------------------
(* Properties of TiffWriter.write_block (SpecWriter).                      *)

Called == lastCall.result # "none"

GridX == CeilDiv(writer.width, writer.tile_width)
GridY == CeilDiv(writer.height, writer.tile_height)

InGrid == lastCall.block_x < GridX /\ lastCall.block_y < GridY

AtEdge == lastCall.block_x = GridX - 1 \/ lastCall.block_y = GridY - 1

Fits ==
    /\ lastCall.block_x * writer.tile_width + lastCall.data[1] <= writer.width
    /\ lastCall.block_y * writer.tile_height + lastCall.data[2] <= writer.height

GeometryErrors == {"invalid_tile_index", "tile_overflow", "tile_shape_mismatch"}

\* C8: at an edge grid position a write is accepted if and only if
\* block_x*tile_w + data.width <= width and block_y*tile_h + data.height
\* <= height, and otherwise fails with the tile-overflow error; on a 10x10
\* image with 4x4 tiles a 2x2 block at (2,2) is accepted and a 4x4 block at
\* (2,2) is rejected.
C8_EdgeAcceptance ==
    /\ (Called /\ InGrid /\ AtEdge) =>
          /\ Fits => lastCall.result \notin GeometryErrors
          /\ (Fits /\ lastCall.handle = "open") => lastCall.result = "ok"
          /\ ~Fits => lastCall.result = "tile_overflow"
    /\ (/\ Called
        /\ writer.width = 10 /\ writer.height = 10
        /\ writer.tile_width = 4 /\ writer.tile_height = 4
        /\ lastCall.block_x = 2 /\ lastCall.block_y = 2) =>
          /\ (lastCall.data = <<2, 2>> /\ lastCall.handle = "open")
                => lastCall.result = "ok"
          /\ lastCall.data = <<4, 4>> => lastCall.result = "tile_overflow"

C8_Witness ==
    /\ writer.width = 10 /\ writer.height = 10
    /\ writer.tile_width = 4 /\ writer.tile_height = 4
    /\ Called
    /\ lastCall.block_x = 2 /\ lastCall.block_y = 2
    /\ lastCall.data = <<2, 2>>
    /\ lastCall.result = "ok"

\* C9: at an interior grid position a write is accepted only when the data
\* shape equals (tile_w, tile_h); any other shape, smaller or larger, fails
\* with the tile-shape-mismatch error.
C9_InteriorExact ==
    (Called /\ InGrid /\ ~AtEdge) =>
        /\ lastCall.result \notin GeometryErrors
              => lastCall.data = <<writer.tile_width, writer.tile_height>>
        /\ lastCall.data # <<writer.tile_width, writer.tile_height>>
              => lastCall.result = "tile_shape_mismatch"
        /\ (/\ lastCall.data = <<writer.tile_width, writer.tile_height>>
            /\ lastCall.handle = "open") => lastCall.result = "ok"

C9_Witness ==
    /\ writer.width = 10 /\ writer.height = 10
    /\ writer.tile_width = 4 /\ writer.tile_height = 4
    /\ Called
    /\ lastCall.block_x = 0 /\ lastCall.block_y = 0
    /\ lastCall.data = <<3, 3>>
    /\ lastCall.result = "tile_shape_mismatch"

\* C10: every accepted write has its block position inside the tile grid
\* (the tile starts inside the image), and a call with block_x >=
\* num_tiles_x or block_y >= num_tiles_y fails with the invalid-tile-index
\* error.
C10_InsideGrid ==
    Called =>
        /\ lastCall.result \notin {"invalid_tile_index"} =>
              /\ lastCall.block_x * writer.tile_width < writer.width
              /\ lastCall.block_y * writer.tile_height < writer.height
              /\ lastCall.block_x < GridX
              /\ lastCall.block_y < GridY
        /\ (lastCall.block_x >= GridX \/ lastCall.block_y >= GridY)
              => lastCall.result = "invalid_tile_index"

\* A call exactly one past the last tile column is rejected.
C10_Witness ==
    /\ Called
    /\ lastCall.block_x = GridX
    /\ lastCall.block_y < GridY - 1
    /\ lastCall.data = <<writer.tile_width, writer.tile_height>>
    /\ lastCall.result = "invalid_tile_index"

\* The rectangle of the grid cell of the latest call, and the pixels the
\* call passes to WriteArray.
CallCell ==
    RectangleWH(lastCall.block_x * writer.tile_width,
                lastCall.block_y * writer.tile_height,
                writer.tile_width, writer.tile_height)

CallPixels ==
    RectangleWH(lastCall.block_x * writer.tile_width,
                lastCall.block_y * writer.tile_height,
                lastCall.data[1], lastCall.data[2])

\* C22: every write_block call accepted by an open writer has data width
\* <= tile_w and data height <= tile_h and writes only pixels inside the
\* rectangle of its own grid cell, so that accepted writes at distinct grid
\* positions of a band cannot overlap.
C22_WriteInsideOwnCell ==
    (Called /\ lastCall.result = "ok") =>
        /\ lastCall.data[1] <= writer.tile_width
        /\ lastCall.data[2] <= writer.tile_height
        /\ contains_rect(CallCell, CallPixels)

\* The geometry validation of write_block would pass for the latest call.
ValidGeometry ==
    /\ InGrid
    /\ AtEdge => Fits
    /\ ~AtEdge => lastCall.data = <<writer.tile_width, writer.tile_height>>

\* C23: a rejected write_block call (invalid tile index, edge overflow or
\* interior shape mismatch) leaves the output raster and the writer's size,
\* tile size, tile grid and open/closed state unchanged; the raster only
\* changes by an accepted call; and a valid call made on the open writer
\* after a rejected one is accepted.
C23_RejectedWriteNoEffect ==
    /\ [][(lastCall' # lastCall /\ lastCall'.result \in GeometryErrors) =>
             /\ raster' = raster
             /\ writer' = writer
             /\ get_num_tiles(writer') = get_num_tiles(writer)
             /\ handle' = handle
             /\ flushes' = flushes]_vars
    /\ [][raster' # raster =>
             /\ lastCall'.result = "ok"
             /\ raster'.written =
                  raster.written
                    \cup BlockPixels(writer, lastCall'.data, lastCall'.block_x,
                                     lastCall'.block_y)]_vars
    /\ [][(/\ Called
           /\ lastCall.result \in GeometryErrors
           /\ handle = "open"
           /\ lastCall' # lastCall
           /\ ValidGeometry') => lastCall'.result = "ok"]_vars

\* A call was rejected for its geometry on a writer that had already
\* written pixels, and the written pixels are still those of one full tile.
C23_Witness ==
    /\ raster.tracked
    /\ Called
    /\ lastCall.result = "tile_overflow"
    /\ handle = "open"
    /\ raster.written =
          BlockPixels(writer, <<writer.tile_width, writer.tile_height>>, 0, 0)
    /\ GridX = 2 /\ GridY = 2

\* C11 as stated: every write_block call made after close() fails with the
\* writer-closed error, whatever its arguments.
C11_ClosedErrorAlways ==
    (Called /\ lastCall.after_close) => lastCall.result = "handle_is_none"

\* C11 amended: once closed the writer never becomes open again and a
\* repeated close() changes nothing; every write_block call made after
\* close() fails and writes nothing: with the geometry error when its
\* arguments fail the geometry validation, which runs first, and otherwise
\* with the error of using the released handle.
C11_ClosedTerminal ==
    /\ [](/\ flushes > 0 => handle = "None"
          /\ (Called /\ lastCall.after_close) =>
                /\ lastCall.result # "ok"
                /\ lastCall.result \in GeometryErrors \cup {"handle_is_none"}
                /\ lastCall.result = "handle_is_none" <=>
                      /\ InGrid
                      /\ AtEdge => Fits
                      /\ ~AtEdge => lastCall.data = <<writer.tile_width,
                                                       writer.tile_height>>)
    /\ [][handle = "None" =>
             /\ handle' = "None"
             /\ flushes' = flushes
             /\ writer' = writer]_vars

\* A geometrically valid write on the closed writer.
C11_Witness ==
    /\ handle = "None"
    /\ flushes = 1
    /\ Called
    /\ lastCall.after_close
    /\ lastCall.block_x = 0 /\ lastCall.block_y = 0
    /\ lastCall.data = <<writer.tile_width, writer.tile_height>>
    /\ lastCall.result = "handle_is_none"

----------------------------------------------------------------------------
(* Properties of the TiffWriter constructor (SpecCtor).                    *)

Constructed == writer # NoWriter

\* C16 as stated: the tiled layout is enabled if and only if both the width
\* and the height exceed 100.
C16_TiledIffBoth ==
    Constructed => (writer.tiled <=> (writer.width > 100 /\ writer.height > 100))

\* C16 amended: the tiled layout is enabled if and only if the width or the
\* height exceeds 100; the striped layout is used only when both dimensions
\* are 100 or less.
C16_TiledIffEither ==
    Constructed =>
        /\ (writer.width > 100 \/ writer.height > 100) => writer.tiled
        /\ (writer.width <= 100 /\ writer.height <= 100) => ~writer.tiled

\* One dimension above the threshold, the other at it: tiled.
C16_Witness ==
    /\ Constructed
    /\ writer.width = 101
    /\ writer.height = 100
    /\ writer.tiled

----------------------------------------------------------------------------
(* Properties of TiffImage.save (SpecSave).                                *)

\* The rectangle of the tile at grid position (bx, by) of the writer.
TileRect(bx, by) ==
    get_intersection(
        RectangleWH(bx * writer.tile_width, by * writer.tile_height,
                    writer.tile_width, writer.tile_height),
        RectangleWH(0, 0, writer.width, writer.height))

\* The pixel region a logged write_block call covers.
WrittenRect(c) ==
    RectangleWH(c.block_x * writer.tile_width, c.block_y * writer.tile_height,
                c.data[1], c.data[2])

\* The logged calls for one grid position and band.
WritesAt(bx, by, band) ==
    {k \in DOMAIN saveLog :
        /\ saveLog[k].block_x = bx
        /\ saveLog[k].block_y = by
        /\ saveLog[k].band = band}

\* C14: save tiles the full image extent with partial tiles included;
\* every write_block call it makes passes the writer's geometry validation
\* and covers exactly the rectangle of its tile, no (grid position, band)
\* pair is written twice, and when process_rois has returned every
\* (grid position, band) pair has received exactly one call.
C14_SaveWritesEveryTileOnce ==
    /\ \A k \in DOMAIN saveLog :
          /\ saveLog[k].result = "ok"
          /\ saveLog[k].block_x \in 0..(GridX - 1)
          /\ saveLog[k].block_y \in 0..(GridY - 1)
          /\ saveLog[k].band \in 0..(writer.num_bands - 1)
          /\ WrittenRect(saveLog[k]) =
                TileRect(saveLog[k].block_x, saveLog[k].block_y)
          /\ WrittenRect(saveLog[k]) = saveLog[k].roi
          /\ Cardinality(WritesAt(saveLog[k].block_x, saveLog[k].block_y,
                                  saveLog[k].band)) = 1
    /\ pc = "done" =>
          /\ writer.width = image.width /\ writer.height = image.height
          /\ writer.num_bands = image.bands
          /\ \A bx \in 0..(GridX - 1), by \in 0..(GridY - 1),
                band \in 0..(writer.num_bands - 1) :
                Cardinality(WritesAt(bx, by, band)) = 1

\* A finished save of a two-band image whose tiling has an interior tile
\* and partial tiles in both directions, with tiles that differ from the
\* native blocks.
C14_Witness ==
    /\ pc = "done"
    /\ handle = "None"
    /\ writer.num_bands = 2
    /\ GridX >= 2 /\ GridY >= 2
    /\ writer.width % writer.tile_width # 0
    /\ writer.height % writer.tile_height # 0
    /\ <<writer.tile_width, writer.tile_height>> # block_info(image)[1]
    /\ Len(saveLog) = GridX * GridY * 2

----------------------------------------------------------------------------
(* Properties of the TiffImage life cycle (SpecSource).                    *)

Accessed == lastAccess # NoCall

Accessors ==
    {"num_bands", "size", "read", "nodata_value", "data_type", "block_info",
     "metadata", "get_block_aligned_read_roi", "process_rois"}

\* C15: close is idempotent and Closed is absorbing: once closed the source
\* stays closed; every accessor called on a closed source fails with the
\* closed-source error without touching the backend; a close() on a closed
\* source does not fail and changes nothing.
C15_ClosedAbsorbing ==
    /\ [](Accessed =>
            /\ (lastAccess.closed /\ lastAccess.method \in Accessors) =>
                  /\ lastAccess.result = "closed_source_error"
                  /\ ~lastAccess.backend
            /\ lastAccess.method = "close" =>
                  /\ lastAccess.result = "ok"
                  /\ handles = "None"
            /\ lastAccess.closed => handles = "None")
    /\ [][handles = "None" => handles' = "None"]_vars

\* An accessor has been called on a closed source and was refused.
C15_Witness ==
    /\ handles = "None"
    /\ Accessed
    /\ lastAccess.closed
    /\ lastAccess.method = "get_block_aligned_read_roi"
    /\ lastAccess.result = "closed_source_error"

\* ------------------------------------------------------------------
\* write_input_files (bin/convert_input_images_pbs.py, lines 66-93)
\* ------------------------------------------------------------------
\* The files of file_list are numbered 1..num_files; a shard file is the
\* sequence of the files written to it, in the order of the writes.

MaxFiles  == 4
MaxPerJob == 3

\* Lines 71-72: np.arange followed by np.random.shuffle leaves some
\* permutation of the positions of file_list.
Shuffles(n) ==
    {p \in [1..n -> 1..n] : \A i \in 1..n, j \in 1..n : p[i] = p[j] => i = j}

\* Line 76: the test of the outer loop.
files_remain(iter, n) == iter < n

\* Line 84: the test of the inner loop.
shard_has_room_inclusive(count, per_job) == count <= per_job
shard_has_room(count, per_job) == count < per_job

\* Lines 85-86: the file written next is file_list[indices[input_iter]].
this_file(idx, iter) == idx[iter + 1]

InitShard ==
    /\ num_files \in 0..MaxFiles
    /\ files_per_job \in 1..MaxPerJob
    /\ indices = <<>>
    /\ input_iter = 0
    /\ current_file_count = 0
    /\ output_files = <<>>
    /\ shardPc = "idle"
    /\ image = NoImage
    /\ IdleRois
    /\ IdleAlign
    /\ IdleWriter
    /\ IdleSeq
    /\ IdleSave
    /\ IdleSource

notShard ==
    <<roisVars, alignVars, writerVars, seqVars, saveVars, sourceVars>>

\* Lines 70-75: the shuffle and the initialisation of the locals.
ShardShuffle ==
    /\ shardPc = "idle"
    /\ indices' \in Shuffles(num_files)
    /\ output_files' = <<>>
    /\ input_iter' = 0
    /\ shardPc' = "outer"
    /\ UNCHANGED <<num_files, files_per_job, current_file_count>>

\* Lines 76-82 and 93: the outer loop test; a new shard file is opened, or
\* the function returns output_files.
ShardOpen ==
    /\ shardPc = "outer"
    /\ IF files_remain(input_iter, num_files)
       THEN /\ current_file_count' = 0
            /\ output_files' = Append(output_files, <<>>)
            /\ shardPc' = "inner"
       ELSE /\ shardPc' = "done"
            /\ UNCHANGED <<current_file_count, output_files>>
    /\ UNCHANGED <<num_files, files_per_job, indices, input_iter>>

\* Lines 84-91: one pass of the inner loop: its test, the write, the two
\* increments and the break.
ShardWrite ==
    /\ shardPc = "inner"
    /\ IF shard_has_room(current_file_count, files_per_job)
       THEN /\ output_files' =
                  [output_files EXCEPT ![Len(output_files)] =
                      Append(@, this_file(indices, input_iter))]
            /\ current_file_count' = current_file_count + 1
            /\ input_iter' = input_iter + 1
            /\ shardPc' = IF input_iter + 1 >= num_files THEN "outer"
                          ELSE "inner"
       ELSE /\ shardPc' = "outer"
            /\ UNCHANGED <<output_files, current_file_count, input_iter>>
    /\ UNCHANGED <<num_files, files_per_job, indices>>

NextShard ==
    \/ ShardShuffle /\ UNCHANGED notShard
    \/ ShardOpen /\ UNCHANGED notShard
    \/ ShardWrite /\ UNCHANGED notShard

SpecShard == InitShard /\ [][NextShard]_vars

\* The function is one sequential call: a step that can be taken is taken.
SpecShardFair == SpecShard /\ WF_vars(NextShard)

\* The places (shard, line) of the shard files at which file f stands.
PlacesOf(f) ==
    {<<k, i>> \in (1..Len(output_files)) \X (1..MaxFiles) :
        i <= Len(output_files[k]) /\ output_files[k][i] = f}

\* C24: for files_per_job >= 1, write_input_files returns, and at the
\* return every input file stands at exactly one place of one shard file,
\* every shard but the last holds exactly files_per_job entries, the last
\* holds between one and files_per_job, so none is empty, and the number
\* of shard files is ceil(num_files / files_per_job), zero for no files.
C24_ShardsPartitionFiles ==
    /\ [](shardPc = "done" =>
            /\ \A f \in 1..num_files : Cardinality(PlacesOf(f)) = 1
            /\ \A k \in 1..Len(output_files) :
                 /\ \A i \in 1..Len(output_files[k]) :
                       output_files[k][i] \in 1..num_files
                 /\ Len(output_files[k]) >= 1
                 /\ Len(output_files[k]) <= files_per_job
                 /\ k < Len(output_files) =>
                       Len(output_files[k]) = files_per_job
            /\ Len(output_files) =
                  (num_files + files_per_job - 1) \div files_per_job
            /\ (num_files = 0 => output_files = <<>>))
    /\ <>(shardPc = "done")

\* Four files in shards of three have been written in a shuffled order: a
\* full shard and a last shard of one file.
C24_Witness ==
    /\ shardPc = "done"
    /\ num_files = 4
    /\ files_per_job = 3
    /\ Len(output_files) = 2
    /\ Len(output_files[1]) = 3
    /\ Len(output_files[2]) = 1
    /\ output_files[1][1] = 3

====
